---- MODULE Spec2Model ----
(***************************************************************************)
(* Model of restful-best-practices: the in-memory store of UserController  *)
(* (this.users), its three handlers getUsers, createUser and updateUser,   *)
(* the middleware chains of userRoutes.ts that guard them (authenticate,   *)
(* the express-validator rules and validateRequest), the version gate      *)
(* versionControl with the routes app.ts mounts behind it, errorHandler    *)
(* and the unhandledRejection listener of app.ts, and the CacheService.    *)
(*                                                                         *)
(* Conventions                                                             *)
(*  - a JavaScript object is a function from its own keys to values; a key *)
(*    that is absent (undefined) is not in the DOMAIN;                     *)
(*  - uuidv4() is modelled by uuidv4(n), the n-th id the generator hands   *)
(*    out; the ids a client can put in a request body or a cursor are the  *)
(*    generated ones plus the empty string, EmptyId;                       *)
(*  - new Date().toISOString() reads the clock now, which only advances;   *)
(*  - the handlers are modelled as methods of the controller instance      *)
(*    userController (this = the instance), i.e. this.users is its store;  *)
(*    SpecWired alone calls them as the router does, without a receiver;   *)
(*  - query and header values are strings; Spec, SpecChain and SpecQuiet   *)
(*    are about the router of /api/users (requests that passed the gate),  *)
(*    SpecApp is about the application with its response headers,          *)
(*    SpecWired about its error path, SpecConc about requests that         *)
(*    overlap, and SpecCache about the cache.                              *)
(***************************************************************************)
EXTENDS Integers, Sequences, FiniteSets, TLC

VARIABLES
    users,      \* this.users of the controller instance, in insertion order
    now,        \* the clock read by new Date()
    nUpdates,   \* how many updates have succeeded (bounds the model)
    resp,       \* the exchange in flight: its request and its response
    chain,      \* the client that follows next links: what it has seen
    cache,      \* the entries held by the NodeCache of a CacheService
    lastSet,    \* per key, the last set call made and not deleted since
    options,    \* the options the CacheService gave its NodeCache
    lastCheck,  \* the time the sweep of the NodeCache last ran (or began)
    proc,       \* the node process: Express major version, NODE_ENV, alive
    flights     \* requests waiting for their controller, and those it ran

vars == <<users, now, nUpdates, resp, chain, cache, lastSet, options, lastCheck,
          proc, flights>>

-----------------------------------------------------------------------------
(* Bounds of the model *)

MaxUsers == 3
MaxClock == 1
MaxUpdates == 1
MaxPages == 5

(* Program constants *)

DefaultLimit == 10
MinLimit == 1
MaxLimit == 100

-----------------------------------------------------------------------------
(* JavaScript helpers *)

Min(a, b) == IF a < b THEN a ELSE b
Max(a, b) == IF a > b THEN a ELSE b

\* An own key of an object that is present only when `has`.
Opt(k, has, v) == IF has THEN k :> v ELSE <<>>

Has(obj, k) == k \in DOMAIN obj

\* The empty string, the one falsy string.
EmptyId == 0

\* The n-th identifier produced by uuidv4(): fresh, never the empty string.
uuidv4(n) == n

\* Truthiness of an optional string-valued key: undefined and "" are falsy.
Truthy(obj, k) == Has(obj, k) /\ obj[k] # EmptyId

\* Array.prototype.findIndex(u => u.id === id): 0-based, -1 when none matches.
findIndex(arr, id) ==
    IF \E i \in 1..Len(arr) : arr[i].id = id
    THEN (CHOOSE i \in 1..Len(arr) :
              /\ arr[i].id = id
              /\ \A j \in 1..(i - 1) : arr[j].id # id) - 1
    ELSE -1

\* Array.prototype.slice(start, end) with 0-based, end-exclusive indices;
\* negative indices count from the end.
slice(arr, start, end) ==
    LET len == Len(arr)
        from == IF start < 0 THEN Max(len + start, 0) ELSE Min(start, len)
        to == IF end < 0 THEN Max(len + end, 0) ELSE Min(end, len)
    IN SubSeq(arr, from + 1, to)

\* Array.prototype.slice(start)
sliceFrom(arr, start) == slice(arr, start, Len(arr))

-----------------------------------------------------------------------------
(* Request parameters *)

\* A raw query value for limit: a decimal integer n, or text that is none.
IntParam(n) == [int |-> TRUE, n |-> n]
NotAnInt == [int |-> FALSE, n |-> 0]

\* Number(limit): NaN is represented by 0, which is what slice makes of it.
Number(l) == IF l.int THEN l.n ELSE 0

\* String(fields).split(','): a string is the sequence of its tokens, the
\* separator "," being a token of its own.
RECURSIVE split(_)
split(s) ==
    IF \A i \in 1..Len(s) : s[i] # ","
    THEN <<s>>
    ELSE LET p == CHOOSE i \in 1..Len(s) :
                      /\ s[i] = ","
                      /\ \A j \in 1..(i - 1) : s[j] # ","
         IN <<SubSeq(s, 1, p - 1)>> \o split(SubSeq(s, p + 1, Len(s)))

-----------------------------------------------------------------------------
(* UserController.getUsers *)

\* const { cursor, limit = 10, fields } = req.query
limitOf(query) == IF Has(query, "limit") THEN query.limit ELSE IntParam(DefaultLimit)

\* fields ? String(fields).split(',') : undefined
\* A string is truthy unless it is empty; the result is an optional value
\* (key "list" present unless undefined). getUsers never reads it again.
selectedFields(query) ==
    Opt("list", Has(query, "fields") /\ query.fields # <<>>,
        IF Has(query, "fields") THEN split(query.fields) ELSE <<>>)

\* Variant of startIndex: a cursor that matches no record yields an empty
\* page instead of a restart.
startIndexNoFallback(us, query) ==
    IF Truthy(query, "cursor")
    THEN IF findIndex(us, query.cursor) = -1
         THEN Len(us)
         ELSE findIndex(us, query.cursor) + 1
    ELSE 0

\* The 0-based index the page starts at: 0 without a cursor, cursorIndex + 1
\* with one (so 0 again when findIndex answers -1).
startIndex(us, query) ==
    IF Truthy(query, "cursor")
    THEN findIndex(us, query.cursor) + 1
    ELSE 0

filteredUsers(us, query) == sliceFrom(us, startIndex(us, query))

paginatedUsers(us, query) ==
    slice(filteredUsers(us, query), 0, Number(limitOf(query)))

\* Variant of nextCursor: the id of the first record of the page.
nextCursorFirst(page) ==
    IF Len(page) > 0 THEN "id" :> page[1].id ELSE <<>>

\* The id of the last record of the page, or null (no key) for an empty page.
nextCursor(page) ==
    IF Len(page) > 0 THEN "id" :> page[Len(page)].id ELSE <<>>

JsonNull == [null |-> TRUE]
Link(q) == [href |-> q]

\* The _links of the response; an href is modelled by the query it carries,
\* the path being /api/users in both.
selfLink(query) == Link("limit" :> limitOf(query))

nextLink(query, page) ==
    IF Truthy(nextCursor(page), "id")
    THEN Link(("cursor" :> nextCursor(page).id) @@ ("limit" :> limitOf(query)))
    ELSE JsonNull

getUsers(us, query) ==
    LET page == paginatedUsers(us, query)
    IN [status |-> 200,
        by |-> "getUsers",
        body |-> [data |-> page,
                  _links |-> [self |-> selfLink(query),
                              next |-> nextLink(query, page)]]]

-----------------------------------------------------------------------------
(* middleware/validateRequest.ts and the validation chains of userRoutes.ts *)

\* isInt({ min, max }) of express-validator
isInt(l, min, max) == l.int /\ min <= l.n /\ l.n <= max

\* Variant of getUsersErrors: the limit is checked against the minimum only.
getUsersErrorsMinOnly(query) ==
    IF Has(query, "limit") /\ ~(query.limit.int /\ MinLimit <= query.limit.n)
    THEN {"limit"}
    ELSE {}

\* router.get('/'): query('cursor').optional().isString(),
\* query('limit').optional().isInt({ min: 1, max: 100 }),
\* query('fields').optional().isString(). Query values are strings here, so
\* only limit can fail.
getUsersErrors(query) ==
    IF Has(query, "limit") /\ ~isInt(query.limit, MinLimit, MaxLimit)
    THEN {"limit"}
    ELSE {}

\* A handler that answers ends the exchange and leaves the store alone. ran
\* lists the handlers of the chain that ran, in order, and locals is what
\* they stored in res.locals.
ended(us, res) == [users |-> us, res |-> res, ran |-> <<res.by>>, locals |-> <<>>]

\* A controller ends the exchange with the store it leaves.
handled(out) ==
    [users |-> out.users, res |-> out.res, ran |-> <<out.res.by>>, locals |-> <<>>]

\* A middleware that calls next(): the rest of the chain runs after it, and
\* what a later handler stores in res.locals overwrites what it stored.
passed(name, locals, next) ==
    [users |-> next.users, res |-> next.res, ran |-> <<name>> \o next.ran,
     locals |-> next.locals @@ locals]

\* validateRequest: 400 with the details when there are errors, else next().
validateRequest(us, errors, next) ==
    IF errors # {}
    THEN ended(us, [status |-> 400,
                    by |-> "validateRequest",
                    body |-> [error |-> "Validation Error", details |-> errors]])
    ELSE passed("validateRequest", <<>>, next)

\* GET /api/users: the validators, validateRequest, then the controller,
\* which reads the store and does not change it.
routeGetUsers(us, query) ==
    validateRequest(us, getUsersErrors(query), ended(us, getUsers(us, query)))

-----------------------------------------------------------------------------
(* middleware/authenticate.ts *)

\* The Authorization header: absent, or "Bearer <token>" with a token that
\* jwt.verify accepts or rejects.
AuthHeaders == {"none", "Bearer bad", "Bearer good"}

startsWithBearer(h) == h # "none"
jwtVerifies(h) == h = "Bearer good"

\* What jwt.verify returns for a token it accepts: the payload, which the
\* model does not look into.
decoded(h) == "payload"

\* Variant of authenticate: the token is not verified, any Bearer passes.
authenticateAnyBearer(us, h, next) ==
    IF ~startsWithBearer(h)
    THEN ended(us, [status |-> 401, by |-> "authenticate",
                    body |-> [error |-> "Unauthorized", message |-> "no token"]])
    ELSE passed("authenticate", "user" :> decoded(h), next)

\* Variant of authenticate: the decoded token is stored in
\* res.locals.apiVersion.
authenticateAsVersion(us, h, next) ==
    IF ~startsWithBearer(h)
    THEN ended(us, [status |-> 401, by |-> "authenticate",
                    body |-> [error |-> "Unauthorized", message |-> "no token"]])
    ELSE IF ~jwtVerifies(h)
    THEN ended(us, [status |-> 401, by |-> "authenticate",
                    body |-> [error |-> "Unauthorized", message |-> "invalid token"]])
    ELSE passed("authenticate", "apiVersion" :> decoded(h), next)

\* authenticate: 401 without a Bearer header or when jwt.verify throws,
\* else res.locals.user = decoded and next().
authenticate(us, h, next) ==
    IF ~startsWithBearer(h)
    THEN ended(us, [status |-> 401, by |-> "authenticate",
                    body |-> [error |-> "Unauthorized", message |-> "no token"]])
    ELSE IF ~jwtVerifies(h)
    THEN ended(us, [status |-> 401, by |-> "authenticate",
                    body |-> [error |-> "Unauthorized", message |-> "invalid token"]])
    ELSE passed("authenticate", "user" :> decoded(h), next)

-----------------------------------------------------------------------------
(* Request bodies. The values stand for what the sanitizers of the chain   *)
(* (trim, normalizeEmail, toDate) leave in req.body.                       *)

Names == {"ann"}
NewNames == {"bob"}
Emails == {"a@x.io"}
Dates == {"2000-01-01"}

\* isString().trim().notEmpty(), isEmail(), isISO8601()
notEmpty(v) == v # ""
isEmail(v) == v \in Emails
isISO8601(v) == v \in Dates

\* router.post('/'): all three fields are required and checked.
createUserErrors(body) ==
    {k \in {"user_name"} : ~Has(body, k) \/ ~notEmpty(body[k])}
    \cup {k \in {"email"} : ~Has(body, k) \/ ~isEmail(body[k])}
    \cup {k \in {"birth_date"} : ~Has(body, k) \/ ~isISO8601(body[k])}

\* router.patch('/:id'): user_name and email are optional; any other key of
\* the body is not looked at and stays in req.body.
updateUserErrors(body) ==
    {k \in {"email"} : Has(body, k) /\ ~isEmail(body[k])}

-----------------------------------------------------------------------------
(* UserController.createUser and UserController.updateUser *)

\* The record createUser builds; n uuids have been handed out before. The
\* links of a single record are modelled by the id their path ends in.
newUser(body, n, t) ==
    [id |-> uuidv4(n + 1),
     user_name |-> body.user_name,
     email |-> body.email,
     birth_date |-> body.birth_date,
     created_at |-> t]

\* Variant of createUser: the record is put in front (unshift for push).
createUserFront(us, body, t) ==
    LET u == newUser(body, Len(us), t)
    IN [users |-> <<u>> \o us,
        res |-> [status |-> 201, by |-> "createUser",
                 body |-> [data |-> u,
                           _links |-> [self |-> Link("id" :> u.id),
                                       update |-> Link("id" :> u.id),
                                       delete |-> Link("id" :> u.id)]]]]

\* createUser: push the new record, answer 201 with it.
createUser(us, body, t) ==
    LET u == newUser(body, Len(us), t)
    IN [users |-> Append(us, u),
        res |-> [status |-> 201, by |-> "createUser",
                 body |-> [data |-> u,
                           _links |-> [self |-> Link("id" :> u.id),
                                       update |-> Link("id" :> u.id),
                                       delete |-> Link("id" :> u.id)]]]]

\* Variant of merge: the spread order is swapped, the old fields win.
mergeOldWins(old, updates, t) == ("updated_at" :> t) @@ old @@ updates

\* { ...this.users[userIndex], ...updates, updated_at: now }
merge(old, updates, t) == ("updated_at" :> t) @@ updates @@ old

\* Variant of updateUser: an id that no record has creates the record.
updateUserUpsert(us, id, updates, t) ==
    LET userIndex == findIndex(us, id)
    IN IF userIndex = -1
       THEN LET u == merge("id" :> id, updates, t)
            IN [users |-> Append(us, u),
                res |-> [status |-> 200, by |-> "updateUser",
                         body |-> [data |-> u,
                                   _links |-> [self |-> Link("id" :> id)]]]]
       ELSE LET u == merge(us[userIndex + 1], updates, t)
            IN [users |-> [us EXCEPT ![userIndex + 1] = u],
                res |-> [status |-> 200, by |-> "updateUser",
                         body |-> [data |-> u,
                                   _links |-> [self |-> Link("id" :> id)]]]]

\* updateUser: 404 when no record has the id, else the merged record
\* replaces the old one at the same index.
updateUser(us, id, updates, t) ==
    LET userIndex == findIndex(us, id)
    IN IF userIndex = -1
       THEN [users |-> us,
             res |-> [status |-> 404, by |-> "updateUser",
                      body |-> [error |-> "Not Found",
                                message |-> "Usuario no encontrado"]]]
       ELSE LET u == merge(us[userIndex + 1], updates, t)
            IN [users |-> [us EXCEPT ![userIndex + 1] = u],
                res |-> [status |-> 200, by |-> "updateUser",
                         body |-> [data |-> u,
                                   _links |-> [self |-> Link("id" :> id)]]]]

\* POST /api/users: authenticate, the validators, validateRequest, createUser.
routeCreateUser(us, h, body, t) ==
    authenticate(us, h,
        validateRequest(us, createUserErrors(body),
                        handled(createUser(us, body, t))))

\* PATCH /api/users/:id: authenticate, the validators, validateRequest,
\* updateUser.
routeUpdateUser(us, h, id, body, t) ==
    authenticate(us, h,
        validateRequest(us, updateUserErrors(body),
                        handled(updateUser(us, id, body, t))))

-----------------------------------------------------------------------------
(* Inputs *)

\* Ids a client can name: the empty string and the ids generated so far,
\* plus `extra` ids that no record has yet.
KnownIds(us, extra) == {EmptyId} \cup {uuidv4(n) : n \in 1..(Len(us) + extra)}

LimitParams ==
    {IntParam(n) : n \in {0, 1, 2, MaxLimit, MaxLimit + 1}} \cup {NotAnInt}

FieldParams == {<<"id", ",", "zz">>}

Queries(us) ==
    {Opt("cursor", hc, c) @@ Opt("limit", hl, l) @@ Opt("fields", hf, f) :
        hc \in BOOLEAN, c \in KnownIds(us, 1),
        hl \in BOOLEAN, l \in LimitParams,
        hf \in BOOLEAN, f \in FieldParams}

CreateBodies ==
    {Opt("user_name", hn, n) @@ ("email" :> e) @@ ("birth_date" :> d) :
        hn \in BOOLEAN, n \in Names \cup {""}, e \in Emails \cup {"bad"},
        d \in Dates}

\* Bodies of PATCH: the two fields the chain validates, each optional, and
\* the key id, which it does not look at.
UpdateBodies(us) ==
    {Opt("id", hi, i) @@ Opt("user_name", hn, n) @@ Opt("email", he, e) :
        hi \in BOOLEAN, i \in KnownIds(us, 0),
        hn \in BOOLEAN, n \in NewNames,
        he \in BOOLEAN, e \in Emails \cup {"bad"}}

ChainLimits == {1, 2, MaxLimit}

-----------------------------------------------------------------------------
(* services/cacheService.ts: the constructor *)

\* constructor(ttlSeconds: number = 60): the default of the parameter.
DefaultTtlSeconds == 60

\* Variant of the constructor: the sweep period is the whole ttl.
CacheServiceSlowCheck(ttlSeconds) ==
    [stdTTL |-> ttlSeconds, checkperiod |-> ttlSeconds]

\* new CacheService(ttlSeconds): the options of its NodeCache. The period
\* ttlSeconds * 0.2 is computed on whole seconds, ttlSeconds being a
\* multiple of 5 in this model.
CacheService(ttlSeconds) ==
    [stdTTL |-> ttlSeconds, checkperiod |-> (ttlSeconds * 2) \div 10]

-----------------------------------------------------------------------------
(* State *)

\* No exchange is in flight.
NoResp == [op |-> "none"]
IdleChain == [status |-> "idle"]

\* The process after app.listen: the major version of the express package
\* that is installed, the value of NODE_ENV ("" when it is not set), and
\* whether the process is alive.
Booted(express, env) == [express |-> express, env |-> env, up |-> TRUE]

\* No request is waiting for its controller and none has been run.
NoFlights == [pending |-> {}, log |-> <<>>, arrived |-> 0]

Init ==
    /\ users = <<>>
    /\ now = 0
    /\ nUpdates = 0
    /\ resp = NoResp
    /\ chain = IdleChain
    /\ cache = <<>>
    /\ lastSet = <<>>
    /\ options = CacheService(DefaultTtlSeconds)
    /\ lastCheck = 0
    /\ proc = Booted("4.x", "")
    /\ flights = NoFlights

\* A write that succeeded while a pagination chain is under way is recorded
\* in the chain's bookkeeping.
noteWrite(ch, res, kind) ==
    IF ch.status = "active" /\ res.status \in {200, 201}
    THEN [ch EXCEPT !.writes = @ \cup {kind}]
    ELSE ch

\* The clock advances.
Tick ==
    /\ resp = NoResp
    /\ now < MaxClock
    /\ now' = now + 1
    /\ UNCHANGED <<cache, lastSet, options, proc, flights, lastCheck, users, nUpdates, resp, chain>>

\* A POST /api/users request. The exchange of a write keeps, in `before`,
\* the store as the request found it.
CreateUser ==
    /\ resp = NoResp
    /\ Len(users) < MaxUsers
    /\ \E h \in AuthHeaders, body \in CreateBodies :
          LET out == routeCreateUser(users, h, body, now)
          IN /\ users' = out.users
             /\ resp' = [op |-> "POST", req |-> [h |-> h, body |-> body],
                         before |-> users, res |-> out.res]
             /\ chain' = noteWrite(chain, out.res, "create")
    /\ UNCHANGED <<cache, lastSet, options, proc, flights, lastCheck, now, nUpdates>>

\* A PATCH /api/users/:id request.
UpdateUser ==
    /\ resp = NoResp
    /\ nUpdates < MaxUpdates
    /\ \E h \in AuthHeaders, id \in KnownIds(users, 1) \ {EmptyId},
          body \in UpdateBodies(users) :
          LET out == routeUpdateUser(users, h, id, body, now)
          IN /\ users' = out.users
             /\ resp' = [op |-> "PATCH",
                         req |-> [h |-> h, id |-> id, body |-> body],
                         before |-> users, res |-> out.res]
             /\ nUpdates' = IF out.res.status = 200 THEN nUpdates + 1 ELSE nUpdates
             /\ chain' = noteWrite(chain, out.res, "update")
    /\ UNCHANGED <<cache, lastSet, options, proc, flights, lastCheck, now>>

\* Variant of GetUsers: the page of a query is kept in the cache and a later
\* request with the same query is answered from it; no write removes it.
GetUsersCached ==
    /\ resp = NoResp
    /\ \E q \in Queries(users) :
          LET hit == cache # <<>> /\ Has(cache, q)
              out == IF hit THEN ended(users, cache[q])
                     ELSE routeGetUsers(users, q)
          IN /\ resp' = [op |-> "GET", req |-> q, res |-> out.res]
             /\ cache' = IF hit \/ out.res.by # "getUsers" THEN cache
                         ELSE (q :> out.res) @@ cache
    /\ UNCHANGED <<lastSet, options, proc, flights, lastCheck, users, now, nUpdates, chain>>

\* A GET /api/users request with any query.
GetUsers ==
    /\ resp = NoResp
    /\ \E q \in Queries(users) :
          LET out == routeGetUsers(users, q)
          IN resp' = [op |-> "GET", req |-> q, res |-> out.res]
    /\ UNCHANGED <<cache, lastSet, options, proc, flights, lastCheck, users, now, nUpdates, chain>>

\* The exchange ends: the response has been sent and read by the client.
\* Exchanges are handled one at a time (no handler awaits anything).
Close ==
    /\ resp # NoResp
    /\ resp' = NoResp
    /\ UNCHANGED <<cache, lastSet, options, proc, flights, lastCheck, users, now, nUpdates, chain>>

Next == CreateUser \/ UpdateUser \/ GetUsers \/ Tick \/ Close

\* Single requests with any parameters, one exchange at a time.
Spec == Init /\ [][Next]_vars

-----------------------------------------------------------------------------
(* middleware/versionControl.ts and the application's pipeline (app.ts):   *)
(* app.use(versionControl) comes before every route, so each exchange that *)
(* reaches a route has passed the gate. Response headers are a function    *)
(* from header names to values; res.set overwrites.                        *)

\* const supportedVersions = ['1.0', '1.1', '2.0']
supportedVersions == <<"1.0", "1.1", "2.0">>

\* Array.prototype.includes
includes(arr, v) == \E i \in 1..Len(arr) : arr[i] = v

\* Variant of versionOf: the default is the newest version.
versionOfNewest(headers) ==
    IF Has(headers, "api-version") /\ headers["api-version"] # ""
    THEN headers["api-version"]
    ELSE "2.0"

\* req.headers['api-version'] || '1.0': an absent or empty header is falsy.
versionOf(headers) ==
    IF Has(headers, "api-version") /\ headers["api-version"] # ""
    THEN headers["api-version"]
    ELSE "1.0"

SunsetDate == "Sat, 31 Dec 2023 23:59:59 GMT"
SuccessorLink == "</api/v2>; rel=\"successor-version\""

\* Variant of versionControl: res.locals.apiVersion is stored before the
\* version is checked.
versionControlLocalsFirst(headers) ==
    LET version == versionOf(headers)
    IN IF ~includes(supportedVersions, version)
       THEN [next |-> FALSE,
             res |-> [status |-> 400, by |-> "versionControl",
                      body |-> [error |-> "Version Error",
                                supported_versions |-> supportedVersions]],
             set |-> <<>>,
             locals |-> "apiVersion" :> version]
       ELSE [next |-> TRUE,
             set |-> IF version = "1.0"
                     THEN ("Deprecation" :> "true") @@ ("Sunset" :> SunsetDate)
                          @@ ("Link" :> SuccessorLink)
                     ELSE <<>>,
             locals |-> "apiVersion" :> version]

\* Variant of versionControl: the successor-version Link is left out.
versionControlNoLink(headers) ==
    LET version == versionOf(headers)
    IN IF ~includes(supportedVersions, version)
       THEN [next |-> FALSE,
             res |-> [status |-> 400, by |-> "versionControl",
                      body |-> [error |-> "Version Error",
                                supported_versions |-> supportedVersions]],
             set |-> <<>>,
             locals |-> <<>>]
       ELSE [next |-> TRUE,
             set |-> IF version = "1.0"
                     THEN ("Deprecation" :> "true") @@ ("Sunset" :> SunsetDate)
                     ELSE <<>>,
             locals |-> "apiVersion" :> version]

\* versionControl: what the gate answers (when it does not call next), the
\* headers it sets and what it stores in res.locals.
versionControl(headers) ==
    LET version == versionOf(headers)
    IN IF ~includes(supportedVersions, version)
       THEN [next |-> FALSE,
             res |-> [status |-> 400, by |-> "versionControl",
                      body |-> [error |-> "Version Error",
                                supported_versions |-> supportedVersions]],
             set |-> <<>>,
             locals |-> <<>>]
       ELSE [next |-> TRUE,
             set |-> IF version = "1.0"
                     THEN ("Deprecation" :> "true") @@ ("Sunset" :> SunsetDate)
                          @@ ("Link" :> SuccessorLink)
                     ELSE <<>>,
             locals |-> "apiVersion" :> version]

\* Variant of getUsersSet: every version but the newest is flagged.
getUsersSetNotNewest(headers) ==
    IF Has(headers, "api-version") /\ headers["api-version"] # "2.0"
    THEN ("Deprecation" :> "true") @@ ("Sunset" :> SunsetDate)
    ELSE <<>>

\* getUsers, lines 53-57: the headers the controller sets itself, from the
\* raw request header (not from res.locals.apiVersion).
getUsersSet(headers) ==
    IF Has(headers, "api-version") /\ headers["api-version"] = "1.0"
    THEN ("Deprecation" :> "true") @@ ("Sunset" :> SunsetDate)
    ELSE <<>>

\* app.get('/api/legacy'): always flagged as deprecated.
legacy ==
    [res |-> [status |-> 200, by |-> "legacy",
              body |-> [message |-> "deprecated, use /api/users"]],
     set |-> ("Deprecation" :> "true") @@ ("Sunset" :> SunsetDate)]

\* app.get('/api'): the root document.
root ==
    [res |-> [status |-> 200, by |-> "root",
              body |-> [_links |-> [self |-> "/api", users |-> "/api/users",
                                    docs |-> "/api-docs"],
                        version |-> "2.0"]],
     set |-> <<>>]

\* What the route's handlers do with the request: the store afterwards, the
\* answer, the headers they set, the handlers that ran and what they stored
\* in res.locals.
dispatch(us, req, t) ==
    CASE req.route = "GET /api/users" ->
            LET out == routeGetUsers(us, req.query)
            IN [users |-> out.users, res |-> out.res,
                set |-> IF out.res.by = "getUsers"
                        THEN getUsersSet(req.headers) ELSE <<>>,
                ran |-> out.ran, locals |-> out.locals]
      [] req.route = "POST /api/users" ->
            LET out == routeCreateUser(us, req.headers.authorization,
                                       req.body, t)
            IN [users |-> out.users, res |-> out.res, set |-> <<>>,
                ran |-> out.ran, locals |-> out.locals]
      [] req.route = "PATCH /api/users/:id" ->
            LET out == routeUpdateUser(us, req.headers.authorization,
                                       req.id, req.body, t)
            IN [users |-> out.users, res |-> out.res, set |-> <<>>,
                ran |-> out.ran, locals |-> out.locals]
      [] req.route = "GET /api/legacy" ->
            [users |-> us, res |-> legacy.res, set |-> legacy.set,
             ran |-> <<"legacy">>, locals |-> <<>>]
      [] req.route = "GET /api" ->
            [users |-> us, res |-> root.res, set |-> root.set,
             ran |-> <<"root">>, locals |-> <<>>]

\* Variant of app: the routes are registered before the gate, so the route
\* answers and the gate never sees the request.
appRoutesFirst(us, req, t) ==
    LET out == dispatch(us, req, t)
    IN [users |-> out.users, res |-> out.res, headers |-> out.set,
        locals |-> out.locals, next |-> TRUE, ran |-> out.ran]

\* One exchange through the application: the gate, then the route.
app(us, req, t) ==
    LET gate == versionControl(req.headers)
    IN IF ~gate.next
       THEN [users |-> us, res |-> gate.res, headers |-> gate.set,
             locals |-> gate.locals, next |-> FALSE,
             ran |-> <<"versionControl">>]
       ELSE LET out == dispatch(us, req, t)
            IN [users |-> out.users, res |-> out.res,
                headers |-> out.set @@ gate.set,
                locals |-> out.locals @@ gate.locals, next |-> TRUE,
                ran |-> <<"versionControl">> \o out.ran]

\* The api-version header of a request: absent, empty, a supported version
\* or one that is not.
VersionHeaders ==
    {<<>>} \cup {"api-version" :> v : v \in {"", "1.0", "1.1", "2.0", "9.9"}}

\* The requests of the application's routes; every request carries one of
\* the version headers.
AppQueries(us) ==
    {Opt("cursor", hc, c) @@ Opt("limit", hl, l) :
        hc \in BOOLEAN, c \in KnownIds(us, 0) \ {EmptyId},
        hl \in BOOLEAN, l \in {IntParam(1), IntParam(MaxLimit + 1)}}

AppUpdateBodies(us) ==
    {b \in UpdateBodies(us) : DOMAIN b \in {{"user_name"}, {"email"}}}

GetRequests(us) ==
    {[route |-> "GET /api/users", headers |-> vh, query |-> q] :
        vh \in VersionHeaders, q \in AppQueries(us)}

PostRequests ==
    {[route |-> "POST /api/users",
      headers |-> vh @@ ("authorization" :> h), body |-> b] :
        vh \in VersionHeaders, h \in AuthHeaders, b \in CreateBodies}

PatchRequests(us) ==
    {[route |-> "PATCH /api/users/:id",
      headers |-> vh @@ ("authorization" :> h), id |-> id, body |-> b] :
        vh \in VersionHeaders, h \in AuthHeaders,
        id \in KnownIds(us, 1) \ {EmptyId}, b \in AppUpdateBodies(us)}

PlainRequests(route) ==
    {[route |-> route, headers |-> vh] : vh \in VersionHeaders}

\* The exchange of request req, which found the store us, answered by out.
exchange(us, req, out) ==
    [op |-> req.route, req |-> req, before |-> us, res |-> out.res,
     headers |-> out.headers, locals |-> out.locals, next |-> out.next,
     ran |-> out.ran]

\* GET /api/users through the application.
AppGetUsers ==
    /\ resp = NoResp
    /\ \E req \in GetRequests(users) :
          resp' = exchange(users, req, app(users, req, now))
    /\ UNCHANGED <<cache, lastSet, options, proc, flights, lastCheck, users, now, nUpdates, chain>>

\* POST /api/users through the application.
AppCreateUser ==
    /\ resp = NoResp
    /\ Len(users) < MaxUsers
    /\ \E req \in PostRequests :
          LET out == app(users, req, now)
          IN /\ users' = out.users
             /\ resp' = exchange(users, req, out)
    /\ UNCHANGED <<cache, lastSet, options, proc, flights, lastCheck, now, nUpdates, chain>>

\* PATCH /api/users/:id through the application.
AppUpdateUser ==
    /\ resp = NoResp
    /\ nUpdates < MaxUpdates
    /\ \E req \in PatchRequests(users) :
          LET out == app(users, req, now)
          IN /\ users' = out.users
             /\ resp' = exchange(users, req, out)
             /\ nUpdates' = IF out.res.status = 200 THEN nUpdates + 1 ELSE nUpdates
    /\ UNCHANGED <<cache, lastSet, options, proc, flights, lastCheck, now, chain>>

\* GET /api/legacy through the application.
AppLegacy ==
    /\ resp = NoResp
    /\ \E req \in PlainRequests("GET /api/legacy") :
          resp' = exchange(users, req, app(users, req, now))
    /\ UNCHANGED <<cache, lastSet, options, proc, flights, lastCheck, users, now, nUpdates, chain>>

\* GET /api through the application.
AppRoot ==
    /\ resp = NoResp
    /\ \E req \in PlainRequests("GET /api") :
          resp' = exchange(users, req, app(users, req, now))
    /\ UNCHANGED <<cache, lastSet, options, proc, flights, lastCheck, users, now, nUpdates, chain>>

NextApp ==
    AppGetUsers \/ AppCreateUser \/ AppUpdateUser \/ AppLegacy \/ AppRoot
        \/ Tick \/ Close

\* Requests to every route of the application, each through the gate.
SpecApp == Init /\ [][NextApp]_vars

-----------------------------------------------------------------------------
(* The routes as routes/userRoutes.ts registers them, and the error path   *)
(* of app.ts. The router is given userController.getUsers, .createUser and *)
(* .updateUser as plain function values, so Express calls them without a   *)
(* receiver: inside the method `this` is undefined (class bodies are       *)
(* strict code) and the first this.users throws a TypeError, before the    *)
(* method has answered or written anything. The methods are async, so the  *)
(* throw is a rejected promise. Express 5 passes the rejection to the      *)
(* error handlers; Express 4 ignores the promise, the rejection is         *)
(* unhandled and the listener of app.ts ends the process. Which Express is *)
(* installed is not in the sources, so both are outcomes.                  *)

Undefined == "undefined"

\* The error of reading this.users with this undefined.
TypeErrorUsers ==
    [name |-> "TypeError",
     message |-> "Cannot read properties of undefined (reading 'users')"]

\* The errors express.json() passes to next(err) for a body it cannot parse.
JsonErrors ==
    {[name |-> "SyntaxError", message |-> m] :
        m \in {"Unexpected end of JSON input",
               "Unexpected token } in JSON at position 1"}}

ExpressVersions == {"4.x", "5.x"}

\* process.env.NODE_ENV; "" stands for a variable that is not set.
NodeEnvs == {"", "development", "production", "Production"}

\* Variant of errorHandler: the message of the error is sent in every
\* environment.
errorHandlerVerbose(err, env) ==
    [status |-> 500, by |-> "errorHandler",
     body |-> [error |-> "Internal Server Error", message |-> err.message]]

\* errorHandler: 500, with a fixed message when NODE_ENV === 'production'
\* and the message of the error otherwise.
errorHandler(err, env) ==
    LET isProduction == env = "production"
    IN [status |-> 500, by |-> "errorHandler",
        body |-> [error |-> "Internal Server Error",
                  message |-> IF isProduction THEN "Algo salió mal"
                              ELSE err.message]]

\* A controller that throws err before it has answered: the store is as it
\* was and there is no response yet.
threw(us, by, err) ==
    [users |-> us, res |-> [by |-> by, threw |-> err], ran |-> <<by>>,
     locals |-> <<>>]

\* The call of a controller method whose outcome on its instance is out,
\* with the receiver the caller supplies.
invoke(receiver, us, out) ==
    IF receiver = Undefined
    THEN threw(us, out.res.by, TypeErrorUsers)
    ELSE handled(out)

\* router.get('/', ..., validateRequest, userController.getUsers)
routerGetUsers(us, query) ==
    validateRequest(us, getUsersErrors(query),
        invoke(Undefined, us, [users |-> us, res |-> getUsers(us, query)]))

\* router.post('/', authenticate, ..., validateRequest,
\*             userController.createUser)
routerCreateUser(us, h, body, t) ==
    authenticate(us, h,
        validateRequest(us, createUserErrors(body),
            invoke(Undefined, us, createUser(us, body, t))))

\* router.patch('/:id', authenticate, ..., validateRequest,
\*              userController.updateUser)
routerUpdateUser(us, h, id, body, t) ==
    authenticate(us, h,
        validateRequest(us, updateUserErrors(body),
            invoke(Undefined, us, updateUser(us, id, body, t))))

\* The router mounted at /api/users.
userRoutes(us, req, t) ==
    CASE req.route = "GET /api/users" -> routerGetUsers(us, req.query)
      [] req.route = "POST /api/users" ->
            routerCreateUser(us, req.headers.authorization, req.body, t)
      [] req.route = "PATCH /api/users/:id" ->
            routerUpdateUser(us, req.headers.authorization, req.id,
                             req.body, t)

\* No error was raised in the exchange.
NoError == [name |-> "none"]

\* One exchange on /api/users through the application as it is wired, in
\* process p: the gate, the router, and for a handler that threw the error
\* handler (Express 5) or the unhandledRejection listener, which calls
\* process.exit(1) and leaves the request without an answer (Express 4).
appWired(us, req, t, p) ==
    LET gate == versionControl(req.headers)
    IN IF ~gate.next
       THEN [users |-> us, res |-> gate.res, headers |-> gate.set,
             locals |-> gate.locals, next |-> FALSE,
             ran |-> <<"versionControl">>, err |-> NoError, up |-> TRUE]
       ELSE LET out == userRoutes(us, req, t)
            IN IF ~Has(out.res, "threw")
               THEN [users |-> out.users, res |-> out.res,
                     headers |-> gate.set,
                     locals |-> out.locals @@ gate.locals, next |-> TRUE,
                     ran |-> <<"versionControl">> \o out.ran,
                     err |-> NoError, up |-> TRUE]
               ELSE IF p.express = "5.x"
               THEN [users |-> out.users,
                     res |-> errorHandler(out.res.threw, p.env),
                     headers |-> gate.set,
                     locals |-> out.locals @@ gate.locals, next |-> TRUE,
                     ran |-> <<"versionControl">> \o out.ran
                                \o <<"errorHandler">>,
                     err |-> out.res.threw, up |-> TRUE]
               ELSE [users |-> out.users,
                     res |-> [status |-> "none", by |-> "unhandledRejection"],
                     headers |-> gate.set,
                     locals |-> out.locals @@ gate.locals, next |-> TRUE,
                     ran |-> <<"versionControl">> \o out.ran
                                \o <<"unhandledRejection", "process.exit">>,
                     err |-> out.res.threw, up |-> FALSE]

\* The requests on /api/users.
WiredGetRequests(us) ==
    {[route |-> "GET /api/users", headers |-> vh, query |-> q] :
        vh \in VersionHeaders, q \in Queries(us)}

\* The exchange of request req as the wired application answers it.
wiredExchange(us, req, out) ==
    [op |-> req.route, req |-> req, before |-> us, res |-> out.res,
     headers |-> out.headers, locals |-> out.locals, next |-> out.next,
     ran |-> out.ran, err |-> out.err]

\* GET /api/users to the application as it is wired.
WiredGetUsers ==
    /\ resp = NoResp
    /\ proc.up
    /\ \E req \in WiredGetRequests(users) :
          LET out == appWired(users, req, now, proc)
          IN /\ users' = out.users
             /\ resp' = wiredExchange(users, req, out)
             /\ proc' = [proc EXCEPT !.up = out.up]
    /\ UNCHANGED <<now, nUpdates, chain, cache, lastSet, options, lastCheck, flights>>

\* POST /api/users to the application as it is wired.
WiredCreateUser ==
    /\ resp = NoResp
    /\ proc.up
    /\ \E req \in PostRequests :
          LET out == appWired(users, req, now, proc)
          IN /\ users' = out.users
             /\ resp' = wiredExchange(users, req, out)
             /\ proc' = [proc EXCEPT !.up = out.up]
    /\ UNCHANGED <<now, nUpdates, chain, cache, lastSet, options, lastCheck, flights>>

\* PATCH /api/users/:id to the application as it is wired.
WiredUpdateUser ==
    /\ resp = NoResp
    /\ proc.up
    /\ \E req \in PatchRequests(users) :
          LET out == appWired(users, req, now, proc)
          IN /\ users' = out.users
             /\ resp' = wiredExchange(users, req, out)
             /\ proc' = [proc EXCEPT !.up = out.up]
    /\ UNCHANGED <<now, nUpdates, chain, cache, lastSet, options, lastCheck, flights>>

\* A POST or PATCH whose body is not JSON: express.json() calls next(err),
\* the handlers after it are skipped and errorHandler answers.
WiredBadJson ==
    /\ resp = NoResp
    /\ proc.up
    /\ \E route \in {"POST /api/users", "PATCH /api/users/:id"},
          vh \in VersionHeaders, err \in JsonErrors :
          resp' = [op |-> route,
                   req |-> [route |-> route, headers |-> vh],
                   before |-> users,
                   res |-> errorHandler(err, proc.env),
                   headers |-> <<>>, locals |-> <<>>, next |-> FALSE,
                   ran |-> <<"express.json", "errorHandler">>,
                   err |-> err]
    /\ UNCHANGED <<users, now, nUpdates, chain, cache, lastSet, options, lastCheck, proc, flights>>

\* The exchange ends; a process that has exited ends nothing.
WiredClose ==
    /\ resp # NoResp
    /\ proc.up
    /\ resp' = NoResp
    /\ UNCHANGED <<users, now, nUpdates, chain, cache, lastSet, options, lastCheck, proc, flights>>

InitWired ==
    /\ users = <<>>
    /\ now = 0
    /\ nUpdates = 0
    /\ resp = NoResp
    /\ chain = IdleChain
    /\ cache = <<>>
    /\ lastSet = <<>>
    /\ options = CacheService(DefaultTtlSeconds)
    /\ lastCheck = 0
    /\ proc \in {Booted(e, env) : e \in ExpressVersions, env \in NodeEnvs}
    /\ flights = NoFlights

NextWired ==
    WiredGetUsers \/ WiredCreateUser \/ WiredUpdateUser \/ WiredBadJson
        \/ WiredClose

\* Requests on /api/users to the application as app.ts and userRoutes.ts
\* wire it, in a process of either Express version and any NODE_ENV.
SpecWired == InitWired /\ [][NextWired]_vars

-----------------------------------------------------------------------------
(* Concurrent requests. Node runs one callback at a time and a callback    *)
(* runs to its end. The validators of a route are asynchronous, so between *)
(* the arrival of a request and the call of its controller the handlers of *)
(* other requests can run; the controller methods contain no await, so     *)
(* each runs from its first statement to its response in one piece. A      *)
(* request waits in flights.pending from its arrival (past the gate,       *)
(* authenticate and validation) until its controller runs; flights.log is  *)
(* the controller runs in the order they happened. The controller is       *)
(* called on its instance.                                                 *)

MaxFlights == 2
MaxArrivals == 3

\* Variant of storeRead: the handler works on the store as it was when the
\* request arrived.
storeReadAtArrival(current, seen) == seen

\* this.users inside a handler: the store as it is when the handler runs.
storeRead(current, seen) == current

\* The controller method of the request's route, run on store us at time t.
controller(us, req, t) ==
    CASE req.route = "GET /api/users" ->
            [users |-> us, res |-> getUsers(us, req.query)]
      [] req.route = "POST /api/users" -> createUser(us, req.body, t)
      [] req.route = "PATCH /api/users/:id" ->
            updateUser(us, req.id, req.body, t)

\* Queries of the concurrent reads.
ConcQueries == {<<>>, "limit" :> IntParam(MinLimit)}

\* The requests that reach their controller: good token, valid input.
ConcRequests(us) ==
    {[route |-> "GET /api/users", query |-> q] :
        q \in {c \in ConcQueries : getUsersErrors(c) = {}}}
    \cup {[route |-> "POST /api/users", body |-> b] :
            b \in {c \in CreateBodies : createUserErrors(c) = {}}}
    \cup {[route |-> "PATCH /api/users/:id", id |-> id, body |-> b] :
            id \in KnownIds(us, 0) \ {EmptyId},
            b \in {c \in UpdateBodies(us) :
                      /\ DOMAIN c = {"user_name"}
                      /\ updateUserErrors(c) = {}}}

\* A request arrives and passes the middleware of its route; its controller
\* has not been called yet.
Arrive ==
    /\ Cardinality(flights.pending) < MaxFlights
    /\ flights.arrived < MaxArrivals
    /\ \E req \in ConcRequests(users) :
          flights' = [flights EXCEPT
                         !.pending = @ \cup {[n |-> flights.arrived + 1,
                                              req |-> req, seen |-> users]},
                         !.arrived = @ + 1]
    /\ UNCHANGED <<users, now, nUpdates, resp, chain, cache, lastSet, options, proc, lastCheck>>

\* The controller of a waiting request runs, from its first statement to
\* its response.
Run ==
    \E f \in flights.pending :
        LET out == controller(storeRead(users, f.seen), f.req, now)
        IN /\ Len(out.users) <= MaxUsers
           /\ users' = out.users
           /\ flights' = [flights EXCEPT
                             !.pending = @ \ {f},
                             !.log = Append(@, [n |-> f.n, req |-> f.req,
                                                t |-> now, res |-> out.res])]
           /\ UNCHANGED <<now, nUpdates, resp, chain, cache, lastSet, options, proc, lastCheck>>

NextConc == Arrive \/ Run \/ Tick

\* Requests whose controllers run while other requests are waiting.
SpecConc == Init /\ [][NextConc]_vars

-----------------------------------------------------------------------------
(* A client that pages through the collection: the first request carries   *)
(* no cursor, each later one the cursor of the previous page's next link,  *)
(* all with the same limit, until a page has no next link.                 *)

\* Every record still has the id createUser gave it (the i-th record was
\* given the i-th uuid, records being appended and never removed).
IdsAsCreated(us) == \A i \in 1..Len(us) : us[i].id = uuidv4(i)

\* The positions in the store of the records of the page answered to query.
positions(us, query, res) ==
    [i \in 1..Len(res.body.data) |-> startIndex(us, query) + i]

\* The chain after the page `res` answered to `query` on store `us`.
follow(ch, us, query, res) ==
    LET next == res.body._links.next
    IN [ch EXCEPT
          !.status = IF next = JsonNull THEN "done" ELSE "active",
          !.next = IF next = JsonNull THEN <<>> ELSE "cursor" :> next.href.cursor,
          !.visited = @ \o positions(us, query, res)]

ChainStart ==
    /\ resp = NoResp
    /\ chain.status = "idle"
    /\ \E P \in ChainLimits :
          LET q == "limit" :> IntParam(P)
              out == routeGetUsers(users, q)
              ch == [status |-> "active", limit |-> P, next |-> <<>>,
                     visited |-> <<>>, cursors |-> <<>>, writes |-> {},
                     startLen |-> Len(users),
                     pristine |-> IdsAsCreated(users)]
          IN /\ resp' = [op |-> "GET", req |-> q, res |-> out.res]
             /\ chain' = follow(ch, users, q, out.res)
    /\ UNCHANGED <<cache, lastSet, options, proc, flights, lastCheck, users, now, nUpdates>>

ChainNext ==
    /\ resp = NoResp
    /\ chain.status = "active"
    /\ Len(chain.cursors) + 1 < MaxPages
    /\ LET q == chain.next @@ ("limit" :> IntParam(chain.limit))
           out == routeGetUsers(users, q)
           ch == [chain EXCEPT !.cursors = Append(@, chain.next.cursor)]
       IN /\ resp' = [op |-> "GET", req |-> q, res |-> out.res]
          /\ chain' = follow(ch, users, q, out.res)
    /\ UNCHANGED <<cache, lastSet, options, proc, flights, lastCheck, users, now, nUpdates>>

\* Writes and clock ticks are followed up to the end of the chain, not
\* beyond it.
Running == chain.status # "done"
CreateDuring == Running /\ CreateUser
UpdateDuring == Running /\ UpdateUser
TickDuring == Running /\ Tick

NextChain ==
    CreateDuring \/ UpdateDuring \/ TickDuring \/ Close \/ ChainStart \/ ChainNext

\* Interleaved writes: the store changes between the pages of a chain.
SpecChain == Init /\ [][NextChain]_vars

\* The store is filled and updated first; once the chain has begun no write
\* is interleaved.
Idle == chain.status = "idle"
CreateBefore == Idle /\ CreateUser
UpdateBefore == Idle /\ UpdateUser
TickBefore == Idle /\ Tick

NextQuiet ==
    CreateBefore \/ UpdateBefore \/ TickBefore \/ Close \/ ChainStart \/ ChainNext

SpecQuiet == Init /\ [][NextQuiet]_vars

-----------------------------------------------------------------------------
(* services/cacheService.ts: CacheService keeps its entries in a NodeCache  *)
(* and forwards get, set, del and flush to it. The node-cache package is a *)
(* dependency whose code is not part of the repository: its entries, its   *)
(* lazy check on get and its sweep are modelled after section 4.1 of the   *)
(* specification (NodeCache... below). Time is counted in seconds, read    *)
(* from the clock now.                                                     *)

\* set(key, value, ttl = 60): the default of the ttl parameter.
SetDefaultTtl == 60

\* The map without the given keys.
Without(data, keys) ==
    IF DOMAIN data \subseteq keys THEN <<>>
    ELSE [k \in DOMAIN data \ keys |-> data[k]]

\* An entry is expired once its expiry time has come.
NodeCacheExpired(entry, t) == entry.t <= t

\* NodeCache.get: the value of an entry that is held and not expired; an
\* expired entry is treated as absent (undefined) and removed.
NodeCacheGet(data, key, t) ==
    IF Has(data, key) /\ ~NodeCacheExpired(data[key], t)
    THEN [data |-> data, value |-> "value" :> data[key].v]
    ELSE [data |-> Without(data, {key}), value |-> <<>>]

\* NodeCache.set: the entry replaces any entry of the key and expires ttl
\* seconds from now.
NodeCacheSet(data, key, value, ttl, t) ==
    (key :> [v |-> value, t |-> t + ttl]) @@ data

\* NodeCache.del and NodeCache.flushAll
NodeCacheDel(data, key) == Without(data, {key})
NodeCacheFlushAll(data) == <<>>

\* The periodic sweep (checkperiod): every expired entry is evicted.
NodeCacheSweep(data, t) ==
    Without(data, {k \in DOMAIN data : NodeCacheExpired(data[k], t)})

\* CacheService.get(key)
get(data, key, t) == NodeCacheGet(data, key, t)

\* Variant of set: the ttl argument is not passed on.
setWithoutTtl(data, key, value, args, t) ==
    NodeCacheSet(data, key, value, SetDefaultTtl, t)

\* Variant of set: a key that is held keeps its entry.
setIfAbsent(data, key, value, args, t) ==
    IF Has(data, key) THEN data
    ELSE NodeCacheSet(data, key, value,
                      IF Has(args, "ttl") THEN args.ttl ELSE SetDefaultTtl, t)

\* CacheService.set(key, value, ttl = 60); args holds ttl when it is given.
set(data, key, value, args, t) ==
    NodeCacheSet(data, key, value,
                 IF Has(args, "ttl") THEN args.ttl ELSE SetDefaultTtl, t)

\* CacheService.del(key)
del(data, key) == NodeCacheDel(data, key)

\* Variant of flush: nothing is removed.
flushNothing(data) == data

\* CacheService.flush()
flush(data) == NodeCacheFlushAll(data)

Keys == {"k1", "k2"}
Values == {"v1", "v2"}
Ttls == {1, 2}

\* The ttl argument of a set call: omitted, or a number of seconds.
TtlArgs == {<<>>} \cup {"ttl" :> n : n \in Ttls}

\* The default ttl a CacheService is constructed with.
StdTtls == {5, 10, DefaultTtlSeconds}

\* How far the clock of the cache runs.
MaxCacheClock == 3

\* cacheService.set(k, v) or cacheService.set(k, v, ttl)
CacheSet ==
    /\ resp = NoResp
    /\ \E k \in Keys, v \in Values, args \in TtlArgs :
          /\ cache' = set(cache, k, v, args, now)
          /\ lastSet' = (k :> [v |-> v, at |-> now, args |-> args]) @@ lastSet
          /\ resp' = [op |-> "set", key |-> k, before |-> cache, value |-> TRUE]
    /\ UNCHANGED <<users, now, nUpdates, chain, options, proc, flights, lastCheck>>

\* cacheService.get(k)
CacheGet ==
    /\ resp = NoResp
    /\ \E k \in Keys :
          LET out == get(cache, k, now)
          IN /\ cache' = out.data
             /\ resp' = [op |-> "get", key |-> k, before |-> cache,
                         value |-> out.value]
    /\ UNCHANGED <<users, now, nUpdates, chain, lastSet, options, proc, flights, lastCheck>>

\* cacheService.del(k)
CacheDel ==
    /\ resp = NoResp
    /\ \E k \in Keys :
          /\ cache' = del(cache, k)
          /\ lastSet' = Without(lastSet, {k})
          /\ resp' = [op |-> "del", key |-> k, before |-> cache]
    /\ UNCHANGED <<users, now, nUpdates, chain, options, proc, flights, lastCheck>>

\* cacheService.flush()
CacheFlush ==
    /\ resp = NoResp
    /\ cache' = flush(cache)
    /\ lastSet' = <<>>
    /\ resp' = [op |-> "flush", before |-> cache]
    /\ UNCHANGED <<users, now, nUpdates, chain, options, proc, flights, lastCheck>>

\* The timer of the sweep fires, checkperiod seconds after the last time.
Sweep ==
    /\ resp = NoResp
    /\ now = lastCheck + options.checkperiod
    /\ cache' = NodeCacheSweep(cache, now)
    /\ lastCheck' = now
    /\ resp' = [op |-> "sweep", before |-> cache]
    /\ UNCHANGED <<users, now, nUpdates, chain, lastSet, options, proc, flights>>

\* A second passes; a sweep that is due runs before the next second.
CacheTick ==
    /\ resp = NoResp
    /\ now < MaxCacheClock
    /\ now < lastCheck + options.checkperiod
    /\ now' = now + 1
    /\ UNCHANGED <<users, nUpdates, resp, chain, cache, lastSet, options, proc, flights,
                   lastCheck>>

\* A CacheService is constructed with some default ttl.
InitCache ==
    /\ users = <<>>
    /\ now = 0
    /\ nUpdates = 0
    /\ resp = NoResp
    /\ chain = IdleChain
    /\ cache = <<>>
    /\ lastSet = <<>>
    /\ options \in {CacheService(d) : d \in StdTtls}
    /\ lastCheck = 0
    /\ proc = Booted("4.x", "")
    /\ flights = NoFlights

NextCache ==
    CacheSet \/ CacheGet \/ CacheDel \/ CacheFlush \/ Sweep \/ CacheTick
        \/ Close

\* Calls on one CacheService, one at a time, with the sweep on its timer.
SpecCache == InitCache /\ [][NextCache]_vars

-----------------------------------------------------------------------------
(* Properties of one page: checked under Spec *)

\* The exchange just answered is a page produced by getUsers.
IsPage == resp.op = "GET" /\ resp.res.by = "getUsers"

Ids(us) == {us[i].id : i \in 1..Len(us)}

\* The first min(n, |us|) records of the store.
FirstRecords(us, n) == SubSeq(us, 1, Min(n, Len(us)))

\* The page has a next link, and it carries cursor c.
NextIs(links, c) ==
    /\ links.next # JsonNull
    /\ Has(links.next.href, "cursor")
    /\ links.next.href.cursor = c

\* C3. Next-cursor rule: a page of exactly `limit` records has the id of its
\* last record as next cursor, and a page that is empty or shorter than
\* `limit` has no next link.
C3_NextCursorRule ==
    IsPage =>
        LET page == resp.res.body.data
            L == Number(limitOf(resp.req))
        IN /\ Len(page) = L => NextIs(resp.res.body._links, page[Len(page)].id)
           /\ Len(page) < L => resp.res.body._links.next = JsonNull

\* C4. Page contents: with a cursor equal to the id of the record at
\* position i the page is the records at positions i+1 .. min(i+L, |s|);
\* without a cursor it is the first min(L, |s|) records; without a limit L
\* is 10.
C4_PageContents ==
    IsPage =>
        LET page == resp.res.body.data
            q == resp.req
            L == Number(limitOf(q))
        IN /\ ~Has(q, "limit") => L = 10
           /\ ~Has(q, "cursor") => page = FirstRecords(users, L)
           /\ Has(q, "cursor") =>
                 \A i \in 1..Len(users) :
                     users[i].id = q.cursor =>
                         page = SubSeq(users, i + 1, Min(i + L, Len(users)))

\* The request carries a cursor that is the id of no record of the store.
CursorMiss(q, us) == Has(q, "cursor") /\ q.cursor \notin Ids(us)

\* The limit of the request is absent or an integer in [1,100].
LimitInRange(q) ==
    Has(q, "limit") => q.limit.int /\ 1 <= q.limit.n /\ q.limit.n <= 100

\* C5. Cursor-miss fallback: a request whose cursor is the id of no record
\* is answered 200 with the first min(limit, |store|) records.
C5_CursorMissFallback ==
    resp.op = "GET" /\ CursorMiss(resp.req, users) /\ LimitInRange(resp.req) =>
        /\ resp.res.status = 200
        /\ resp.res.by = "getUsers"
        /\ resp.res.body.data = FirstRecords(users, Number(limitOf(resp.req)))

\* A stale cursor (not the empty string) on a store of several records, and
\* a page that is not empty.
C5_Witness ==
    /\ IsPage
    /\ CursorMiss(resp.req, users)
    /\ resp.req.cursor # EmptyId
    /\ Len(users) >= 2
    /\ Has(resp.req, "limit")
    /\ Len(resp.res.body.data) = 1

\* C7. Limit range check: a limit that is not an integer in [1,100] is
\* answered 400 by validateRequest without the controller running, and a
\* request that reaches getUsers has a limit in [1,100] or the default 10.
C7_LimitRangeCheck ==
    resp.op = "GET" =>
        /\ ~LimitInRange(resp.req) =>
              /\ resp.res.status = 400
              /\ resp.res.by = "validateRequest"
              /\ ~Has(resp.res.body, "data")
        /\ resp.res.by = "getUsers" =>
              LET L == Number(limitOf(resp.req))
              IN /\ 1 <= L /\ L <= 100
                 /\ ~Has(resp.req, "limit") => L = 10

\* A limit of 101 on a store that holds records is refused.
C7_Witness ==
    /\ resp.op = "GET"
    /\ Has(resp.req, "limit")
    /\ resp.req.limit = IntParam(101)
    /\ resp.res.status = 400
    /\ Len(users) >= 1

\* The field names a selector names: the pieces between commas.
NamedFields(q) ==
    LET pieces == split(q.fields)
    IN {pieces[i][1] : i \in {j \in 1..Len(pieces) : Len(pieces[j]) = 1}}

\* C8. Field projection: with a field selector every record of the page
\* holds only named fields, unknown names being ignored.
C8_FieldProjection ==
    IsPage /\ Has(resp.req, "fields") =>
        \A i \in 1..Len(resp.res.body.data) :
            DOMAIN resp.res.body.data[i] \subseteq NamedFields(resp.req)

\* C9. Self link: the self link carries the cursor and the limit of the
\* request, so that requesting it again on the unchanged store answers the
\* same page.
C9_SelfLink ==
    IsPage =>
        LET q == resp.req
            self == resp.res.body._links.self.href
        IN /\ self.limit = limitOf(q)
           /\ routeGetUsers(users, self).res.body.data = resp.res.body.data

\* C10. Record ids are unique: no two records of the store have the same id.
C10_UniqueIds ==
    \A i, j \in 1..Len(users) : i # j => users[i].id # users[j].id

-----------------------------------------------------------------------------
(* Properties of the writes: checked under Spec *)

\* The exchange just answered is a PATCH that updateUser answered with 200.
IsUpdate == resp.op = "PATCH" /\ resp.res.status = 200

\* The exchange just answered is a POST that createUser answered with 201.
IsCreate == resp.op = "POST" /\ resp.res.status = 201

\* C11. id and created_at are immutable: every record keeps, in every later
\* state, the id and the created_at it has, whatever the bodies of the
\* updateUser requests contain.
C11_IdCreatedAtImmutable ==
    [][\A i \in 1..Len(users) :
          /\ i <= Len(users')
          /\ users'[i].id = users[i].id
          /\ users'[i].created_at = users[i].created_at]_vars

\* C12. Update merge and position: a successful updateUser(id, fields)
\* replaces exactly the provided fields of a record that has the id, leaves
\* its other fields untouched, sets updated_at, and leaves the index of the
\* record, the length of the store and every other record unchanged.
C12_UpdateMergeAndPosition ==
    IsUpdate =>
        LET id == resp.req.id
            fields == resp.req.body
            old == resp.before
        IN /\ Len(users) = Len(old)
           /\ \E i \in 1..Len(old) :
                 /\ old[i].id = id
                 /\ \A j \in 1..Len(old) : j # i => users[j] = old[j]
                 /\ DOMAIN users[i] =
                        DOMAIN old[i] \cup DOMAIN fields \cup {"updated_at"}
                 /\ \A k \in DOMAIN fields \ {"updated_at"} :
                        users[i][k] = fields[k]
                 /\ \A k \in DOMAIN old[i] \ (DOMAIN fields \cup {"updated_at"}) :
                        users[i][k] = old[i][k]
                 /\ users[i].updated_at = now
                 /\ resp.res.body.data = users[i]

\* The second of two records has been given a new user_name and nothing
\* else; the first still has its own.
C12_Witness ==
    /\ IsUpdate
    /\ Len(users) >= 2
    /\ resp.req.id = uuidv4(2)
    /\ DOMAIN resp.req.body = {"user_name"}
    /\ users[2].user_name \in NewNames
    /\ users[1].user_name \in Names

\* C13. Update of an absent id: updateUser with an id that no record has
\* answers 404 and leaves the store as it was.
C13_UpdateAbsentId ==
    (/\ resp.op = "PATCH"
     /\ resp.res.by = "updateUser"
     /\ resp.req.id \notin Ids(resp.before)) =>
        /\ resp.res.status = 404
        /\ users = resp.before

\* A store that holds a record, and a PATCH with a body that would change
\* something, for an id no record has.
C13_Witness ==
    /\ resp.op = "PATCH"
    /\ resp.res.by = "updateUser"
    /\ resp.res.status = 404
    /\ Len(users) >= 1
    /\ Has(resp.req.body, "user_name")

\* C14. Create appends: a successful createUser adds exactly one record, at
\* the end, with an id no record of the store has, a created_at stamp and no
\* updated_at, and leaves the existing records and their order unchanged.
C14_CreateAppends ==
    IsCreate =>
        LET old == resp.before
        IN /\ Len(users) = Len(old) + 1
           /\ SubSeq(users, 1, Len(old)) = old
           /\ LET u == users[Len(users)]
              IN /\ u.id \notin Ids(old)
                 /\ Has(u, "created_at") /\ u.created_at = now
                 /\ ~Has(u, "updated_at")
                 /\ resp.res.body.data = u

\* A record has been appended to a store that already held two, one of them
\* updated before.
C14_Witness ==
    /\ IsCreate
    /\ Len(users) = 3
    /\ \E i \in 1..2 : Has(users[i], "updated_at")

\* The body of a POST satisfies the rules of its route: the three fields
\* are there, user_name is not empty, email is an address, birth_date a date.
WellFormedCreate(body) ==
    /\ {"user_name", "email", "birth_date"} \subseteq DOMAIN body
    /\ body.user_name # ""
    /\ body.email \in Emails
    /\ body.birth_date \in Dates

\* The body of a PATCH satisfies the rules of its route: email, when there,
\* is an address.
WellFormedUpdate(body) == Has(body, "email") => body.email \in Emails

WellFormed(r) ==
    IF r.op = "POST" THEN WellFormedCreate(r.req.body)
    ELSE WellFormedUpdate(r.req.body)

\* C15. Writes are guarded: a POST or PATCH whose token is missing or does
\* not verify is answered 401, one whose token verifies and whose body fails
\* validation is answered 400, both leave the store unchanged, and the
\* store is changed only by a POST or PATCH that passed both.
C15_WritesGuarded ==
    resp.op \in {"POST", "PATCH"} =>
        LET tokenOk == resp.req.h = "Bearer good"
            bodyOk == WellFormed(resp)
        IN /\ ~tokenOk => resp.res.status = 401 /\ users = resp.before
           /\ tokenOk /\ ~bodyOk => resp.res.status = 400 /\ users = resp.before
           /\ users # resp.before => tokenOk /\ bodyOk

\* A POST with a well-formed body and a token that does not verify has been
\* refused on a store that holds records.
C15_Witness ==
    /\ resp.op = "POST"
    /\ resp.req.h = "Bearer bad"
    /\ WellFormedCreate(resp.req.body)
    /\ resp.res.status = 401
    /\ Len(users) >= 1

\* Record e of a page is a record of the store, with the values the store
\* holds for the fields e has.
InStore(e, us) ==
    \E i \in 1..Len(us) :
        \A f \in DOMAIN e : f \in DOMAIN us[i] /\ e[f] = us[i][f]

\* C24. Cached pages are invalidated by writes: the cache holds no page
\* entry, so none computed before a write, and every page a read is
\* answered with is made of records as the store holds them when the read
\* is answered, whatever writes came before it.
C24_NoStalePage ==
    /\ cache = <<>>
    /\ IsPage =>
          \A j \in 1..Len(resp.res.body.data) :
              InStore(resp.res.body.data[j], users)

\* A read after a successful update is answered with the record as updated.
C24_Witness ==
    /\ IsPage
    /\ \E j \in 1..Len(resp.res.body.data) :
          LET e == resp.res.body.data[j]
          IN /\ Has(e, "updated_at")
             /\ Has(e, "user_name")
             /\ e.user_name \in NewNames

-----------------------------------------------------------------------------
(* Properties of the version gate: checked under SpecApp *)

\* An exchange of the application has just been answered.
IsExchange == resp # NoResp

\* The request declares a version: it has a non-empty api-version header.
Declares(req) ==
    Has(req.headers, "api-version") /\ req.headers["api-version"] # ""

Declared(req) == req.headers["api-version"]

\* The three deprecation items of a response.
HasDeprecation(h) == Has(h, "Deprecation") /\ h["Deprecation"] = "true"
HasSunset(h) == Has(h, "Sunset") /\ h["Sunset"] = "Sat, 31 Dec 2023 23:59:59 GMT"
HasSuccessor(h) ==
    Has(h, "Link") /\ h["Link"] = "</api/v2>; rel=\"successor-version\""

\* C16. Unsupported version is rejected: a request whose declared version
\* is none of 1.0, 1.1, 2.0 is answered by versionControl with an error
\* that lists these three, next() is not called and res.locals.apiVersion
\* is not set.
C16_UnsupportedRejected ==
    (/\ IsExchange
     /\ Declares(resp.req)
     /\ Declared(resp.req) \notin {"1.0", "1.1", "2.0"}) =>
        /\ resp.res.by = "versionControl"
        /\ resp.res.status = 400
        /\ resp.res.body.supported_versions = <<"1.0", "1.1", "2.0">>
        /\ ~resp.next
        /\ ~Has(resp.locals, "apiVersion")

\* A POST with a token that verifies and a well-formed body, declaring 9.9,
\* has been turned away on a store that holds records.
C16_Witness ==
    /\ IsExchange
    /\ resp.op = "POST /api/users"
    /\ Declares(resp.req) /\ Declared(resp.req) = "9.9"
    /\ resp.req.headers.authorization = "Bearer good"
    /\ WellFormedCreate(resp.req.body)
    /\ resp.res.status = 400
    /\ Len(users) >= 1

\* C17. Deprecated version is signalled: an exchange whose resolved version
\* is 1.0 is accepted and its response carries the Deprecation flag, the
\* Sunset timestamp and the successor-version Link.
C17_DeprecatedSignalled ==
    (/\ IsExchange
     /\ Has(resp.locals, "apiVersion")
     /\ resp.locals.apiVersion = "1.0") =>
        /\ resp.next
        /\ HasDeprecation(resp.headers)
        /\ HasSunset(resp.headers)
        /\ HasSuccessor(resp.headers)

\* A PATCH declaring 1.0 has updated a record.
C17_Witness ==
    /\ IsExchange
    /\ resp.op = "PATCH /api/users/:id"
    /\ Declares(resp.req) /\ Declared(resp.req) = "1.0"
    /\ resp.locals.apiVersion = "1.0"
    /\ resp.res.status = 200

\* C18 as claimed. Current versions carry no deprecation signal: an exchange
\* declaring 2.0 or 1.1 is accepted and its response carries no Deprecation,
\* Sunset or successor Link, on whatever route handles it.
C18_NoSignalAnyRoute ==
    (/\ IsExchange
     /\ Declares(resp.req)
     /\ Declared(resp.req) \in {"1.1", "2.0"}) =>
        /\ resp.next
        /\ ~Has(resp.headers, "Deprecation")
        /\ ~Has(resp.headers, "Sunset")
        /\ ~Has(resp.headers, "Link")

\* C18 as amended. An exchange declaring 2.0 or 1.1 is accepted; on every
\* route but /api/legacy its response carries no Deprecation, Sunset or
\* Link, and on /api/legacy it carries Deprecation and Sunset and no Link.
C18_NoSignalButLegacy ==
    (/\ IsExchange
     /\ Declares(resp.req)
     /\ Declared(resp.req) \in {"1.1", "2.0"}) =>
        /\ resp.next
        /\ ~Has(resp.headers, "Link")
        /\ resp.op # "GET /api/legacy" =>
              ~Has(resp.headers, "Deprecation") /\ ~Has(resp.headers, "Sunset")
        /\ resp.op = "GET /api/legacy" =>
              HasDeprecation(resp.headers) /\ HasSunset(resp.headers)

\* A page of records has been answered to a request declaring 1.1.
C18_Witness ==
    /\ IsExchange
    /\ resp.op = "GET /api/users"
    /\ Declares(resp.req) /\ Declared(resp.req) = "1.1"
    /\ resp.res.by = "getUsers"
    /\ Len(resp.res.body.data) >= 1

\* The request of the exchange with header api-version: 1.0 put in.
With10(req) == [req EXCEPT !.headers = ("api-version" :> "1.0") @@ @]

\* C19. Default version: a request that declares no version is accepted,
\* the version exposed downstream is 1.0, and answer, headers and store are
\* those of the same request declaring 1.0.
C19_DefaultVersion ==
    (IsExchange /\ ~Declares(resp.req)) =>
        /\ resp.next
        /\ Has(resp.locals, "apiVersion") /\ resp.locals.apiVersion = "1.0"
        /\ LET r == With10(resp.req)
               explicit == app(resp.before, r, now)
           IN /\ explicit.next
              /\ explicit.locals = resp.locals
              /\ explicit.headers = resp.headers
              /\ explicit.res = resp.res
              /\ explicit.users = users

\* A page of records has been answered to a request without the header.
C19_Witness ==
    /\ IsExchange
    /\ resp.op = "GET /api/users"
    /\ ~Has(resp.req.headers, "api-version")
    /\ resp.res.by = "getUsers"
    /\ Len(resp.res.body.data) >= 1
    /\ HasSuccessor(resp.headers)

\* The handlers that run after the gate.
Downstream ==
    {"authenticate", "validateRequest", "getUsers", "createUser", "updateUser",
     "legacy", "root"}

\* C26. Version gate runs first: versionControl is the first handler of
\* every exchange, and a request whose version the gate rejects runs no
\* other handler: no authenticate (token verification), no validation and
\* no controller (read or mutation of the store), and the store is as the
\* request found it.
C26_GateFirst ==
    IsExchange =>
        /\ resp.ran[1] = "versionControl"
        /\ \A i \in 2..Len(resp.ran) : resp.ran[i] \in Downstream
        /\ ~includes(supportedVersions, versionOf(resp.req.headers)) =>
              /\ resp.ran = <<"versionControl">>
              /\ users = resp.before

\* A write with a good token and a well-formed body, which would have
\* changed the store, is rejected by the gate.
C26_Witness ==
    /\ IsExchange
    /\ resp.op = "POST /api/users"
    /\ resp.req.headers.authorization = "Bearer good"
    /\ WellFormedCreate(resp.req.body)
    /\ ~includes(supportedVersions, versionOf(resp.req.headers))
    /\ resp.res.by = "versionControl"

\* C29. Resolved version is read-only: when the gate has let the request
\* through, res.locals.apiVersion at the end of the exchange is the value
\* the gate stored, whatever handlers ran after it.
C29_ApiVersionKept ==
    (IsExchange /\ resp.next) =>
        /\ Has(resp.locals, "apiVersion")
        /\ resp.locals.apiVersion
              = versionControl(resp.req.headers).locals.apiVersion

\* authenticate has stored the decoded token in res.locals, and validation
\* and the controller have run after it.
C29_Witness ==
    /\ IsExchange
    /\ resp.next
    /\ Has(resp.locals, "user")
    /\ resp.ran = <<"versionControl", "authenticate", "validateRequest",
                    "updateUser">>
    /\ resp.locals.apiVersion = "1.1"

-----------------------------------------------------------------------------
(* Properties of the wired application: checked under SpecWired *)

Controllers == {"getUsers", "createUser", "updateUser"}

\* The request of the exchange passed the gate, authentication (for a
\* write) and validation: its controller was called.
ReachedController ==
    /\ resp # NoResp
    /\ \E i \in 1..Len(resp.ran) : resp.ran[i] \in Controllers

\* C25. Every request on /api/users that passes the version gate,
\* authentication (for writes) and validation is answered by the controller
\* with 200, 201 or 404, and the process stays alive.
C25_ControllerAnswers ==
    ReachedController =>
        /\ resp.res.by \in Controllers
        /\ resp.res.status \in {200, 201, 404}
        /\ proc.up

\* C30. Error details are not exposed in production: with NODE_ENV equal to
\* production the 500 response of errorHandler has one fixed body, whatever
\* the error and its message; in any other environment the message of the
\* body is the message of the error.
C30_NoDetailsInProduction ==
    (resp # NoResp /\ resp.res.by = "errorHandler") =>
        /\ resp.res.status = 500
        /\ proc.env = "production" =>
              resp.res.body = [error |-> "Internal Server Error",
                               message |-> "Algo salió mal"]
        /\ proc.env # "production" =>
              /\ resp.res.body.error = "Internal Server Error"
              /\ resp.res.body.message = resp.err.message

\* errorHandler has answered in production for an error of express.json.
C30_Witness ==
    /\ resp # NoResp
    /\ resp.res.by = "errorHandler"
    /\ proc.env = "production"
    /\ resp.err \in JsonErrors
    /\ resp.err.message # resp.res.body.message

-----------------------------------------------------------------------------
(* Properties of concurrent requests: checked under SpecConc *)

\* The store after the first k controller runs of the log, each run whole
\* and one after the other on what the run before it left.
RECURSIVE StoreAfter(_, _)
StoreAfter(log, k) ==
    IF k = 0 THEN <<>>
    ELSE controller(StoreAfter(log, k - 1), log[k].req, log[k].t).users

\* C27. Store operations are mutually exclusive: however the requests
\* interleave, the store is what the controller runs made of it one whole
\* run after the other, so no create or update is lost (every 201 is a
\* record of the store); every response, and so every page, is the one for
\* the store as the runs before it left it, so a page holds no record that
\* has part of an update.
C27_MutuallyExclusive ==
    LET log == flights.log
    IN /\ users = StoreAfter(log, Len(log))
       /\ Len(users) = Cardinality({k \in 1..Len(log) :
                                        log[k].res.status = 201})
       /\ \A k \in 1..Len(log) :
             /\ log[k].res
                   = controller(StoreAfter(log, k - 1), log[k].req,
                                log[k].t).res
             /\ log[k].res.by = "getUsers" =>
                   \A j \in 1..Len(log[k].res.body.data) :
                       LET e == log[k].res.body.data[j]
                       IN Has(e, "updated_at") <=> e.user_name \in NewNames

\* A read that arrived before an update did has run after it, and its page
\* has the record as updated.
C27_Witness ==
    LET log == flights.log
    IN \E i, j \in 1..Len(log) :
          /\ i < j
          /\ log[i].res.by = "updateUser"
          /\ log[i].res.status = 200
          /\ log[j].res.by = "getUsers"
          /\ log[j].n < log[i].n
          /\ Len(log[j].res.body.data) > 0
          /\ Has(log[j].res.body.data[1], "updated_at")

-----------------------------------------------------------------------------
(* Properties of the cache: checked under SpecCache *)

\* The key has been set, with a ttl, and not deleted or flushed since.
SetWithTtl(k) == Has(lastSet, k) /\ Has(lastSet[k].args, "ttl")

\* The time at which the entry of that set expires.
ExpiryOf(k) == lastSet[k].at + lastSet[k].args.ttl

C21_DefaultTtl ==
    (/\ resp.op = "set"
     /\ ~Has(lastSet[resp.key].args, "ttl")) =>
        cache[resp.key].t = now + options.stdTTL

\* C22. Cache overwrite: the entry held for a key is that of the last set
\* of the key, with that set's value and, when it gave a ttl, the expiry
\* time of that set plus ttl; a get that returns a value returns the value
\* of the last set and never that of an earlier one.
C22_Overwrite ==
    /\ \A k \in DOMAIN cache :
          Has(lastSet, k) =>
              /\ cache[k].v = lastSet[k].v
              /\ SetWithTtl(k) => cache[k].t = ExpiryOf(k)
    /\ (resp.op = "get" /\ resp.value # <<>>) =>
          /\ Has(lastSet, resp.key)
          /\ resp.value = ("value" :> lastSet[resp.key].v)

\* A set with a ttl has replaced an entry of another value that was to
\* expire later.
C22_Witness ==
    /\ resp.op = "set"
    /\ Has(resp.before, resp.key)
    /\ resp.before[resp.key].v # cache[resp.key].v
    /\ SetWithTtl(resp.key)
    /\ resp.before[resp.key].t > cache[resp.key].t

\* C23. Cache sweep: the sweep runs every 0.2 x the default ttl and evicts
\* the expired entries, so that no entry is still held later than its
\* expiry plus one sweep interval, whether or not a get is issued for it.
C23_SweepBound ==
    \A k \in DOMAIN cache :
        now <= cache[k].t + (2 * options.stdTTL) \div 10

\* The sweep has evicted an entry that had expired before and that no get
\* had removed.
C23_Witness ==
    /\ resp.op = "sweep"
    /\ \E k \in DOMAIN resp.before :
          /\ ~Has(cache, k)
          /\ resp.before[k].t < now

\* C28. Cache clear is atomic: after flush() no key is held until it is set
\* again, and a get returns either the value that was stored for its key
\* when it was called or absent, never anything else.
C28_FlushAtomic ==
    /\ resp.op = "flush" => cache = <<>>
    /\ \A k \in DOMAIN cache : Has(lastSet, k)
    /\ resp.op = "get" =>
          \/ resp.value = <<>>
          \/ /\ Has(resp.before, resp.key)
             /\ resp.value = ("value" :> resp.before[resp.key].v)

\* A flush has emptied a cache that held both keys.
C28_Witness ==
    /\ resp.op = "flush"
    /\ DOMAIN resp.before = {"k1", "k2"}
    /\ cache = <<>>

-----------------------------------------------------------------------------
(* Properties of a chain of pages *)

StrictlyIncreasing(seq) ==
    \A i, j \in 1..Len(seq) : i < j => seq[i] < seq[j]

NoRepeat(seq) ==
    \A i, j \in 1..Len(seq) : i # j => seq[i] # seq[j]

\* The number of pages requested so far.
Pages(ch) == Len(ch.cursors) + 1

\* C1. Pagination completeness: on a store of N records as created, with
\* no write interleaved, the chain visits the records in creation order,
\* each once and without a gap, takes at most N + 1 requests, and has
\* visited exactly the N records when it ends on a page with no next.
C1_Completeness ==
    chain.status # "idle" /\ chain.pristine /\ chain.writes = {} =>
        /\ \A i \in 1..Len(chain.visited) : chain.visited[i] = i
        /\ Len(chain.visited) <= chain.startLen
        /\ Pages(chain) <= chain.startLen + 1
        /\ chain.status = "done" => Len(chain.visited) = chain.startLen

\* Three records paged two at a time: the chain has ended after more than
\* one page.
C1_Witness ==
    /\ chain.status = "done"
    /\ chain.pristine
    /\ chain.writes = {}
    /\ chain.startLen = 3
    /\ chain.limit = 2
    /\ chain.visited = <<1, 2, 3>>
    /\ Pages(chain) >= 2

\* C2. Monotonic advancement under interleaved writes: whatever creates and
\* updates are interleaved, a chain begun on records as created visits
\* records at most once each and in insertion order, and when it ends it
\* has visited every record created before its first page.
C2_MonotonicUnderWrites ==
    chain.status # "idle" /\ chain.pristine =>
        /\ StrictlyIncreasing(chain.visited)
        /\ chain.status = "done" =>
              \A i \in 1..chain.startLen :
                  \E k \in 1..Len(chain.visited) : chain.visited[k] = i

\* C6. Pagination termination: with no create interleaved, a chain never
\* comes back to a cursor it has already sent.
C6_NoCursorTwice ==
    chain.status # "idle" /\ "create" \notin chain.writes =>
        NoRepeat(chain.cursors)

====
